---- MODULE Spec2Model ----
(***************************************************************************)
(* Session lifecycle and therapist availability of the booking routes      *)
(* (server/routes/booking.js) and the session auto-end cron service        *)
(* (server/services/sessionAutoEndService.js).                             *)
(*                                                                         *)
(* Time is counted in seconds since the start of the run.  Every handler   *)
(* reads the wall clock (`new Date()`) once per step; the clock is the     *)
(* variable `now`.                                                         *)
(***************************************************************************)
EXTENDS Integers, Sequences, FiniteSets, TLC

VARIABLES now, ledger, appts, req, resp, endedOk, sweep, pricing, ending, call

vars == <<now, ledger, appts, req, resp, endedOk, sweep, pricing, ending, call>>

(***************************************************************************)
(* Bounds of the model.                                                    *)
(***************************************************************************)
\* seconds the clock moves in one Advance step
Step == 300
\* last instant of a run, in seconds
MaxTime == 3300
\* appointments the record store holds at most
MaxAppts == 2
\* last instant of a run of the interleaved specification, in seconds
MaxRaceTime == 900
\* wall-clock second of the day at instant 0 (23:00:30)
ClockOrigin == 82830
\* horizon of the runs that wait for the sweeper: past the end of a
\* 30-minute session booked at the start
MaxLiveTime == 2400
\* horizon of the minute-by-minute runs: past the end and buffer of a
\* 60-minute session
MaxScenarioTime == 4800
\* largest per-session price a therapist is given
MaxPerSession == 512

(***************************************************************************)
(* Program constants.                                                      *)
(***************************************************************************)
\* JS null: no Date, no ObjectId
Null == -1
\* 60000 ms
MinuteSec == 60
\* `now.getTime() + 5 * 60000`, `sessionStart.getTime() - 5 * 60000`
JoinLeadMin == 5
\* `now.getTime() + 10 * 60000`, `setMinutes(getMinutes() + 10)`
BufferMin == 10
\* `[30, 60].includes(duration)`
Durations == {30, 60}

DaySec == 24 * 60 * MinuteSec

(***************************************************************************)
(* The record store: one bookable therapist, one therapist whose pricing   *)
(* is not configured, two users.                                           *)
(***************************************************************************)
Therapists == {"t1", "t2"}

Users == {"u1", "u2"}

\* therapist.pricing.perSession; 0 is "not configured" (falsy)
Pricing == [th \in Therapists |-> IF th = "t1" THEN 500 ELSE 0]

\* inputs of the requests
TherapistInputs == Therapists \cup {"t9", ""}

\* u1 books, u9 is an account that no longer exists
UserInputs == {"u1", "u9"}

DurationInputs == Durations \cup {45}

CallerInputs == Users \cup Therapists

AppointmentInputs == 1 .. MaxAppts

\* the request contexts of the interleaved specification: two instant-book
\* requests can be in flight at once
Requests == {1, 2}

\* the runs of the cron callback that can be in progress at once
Ticks == {1, 2}

(***************************************************************************)
(* Therapist.currentSession, the availability ledger.                      *)
(***************************************************************************)
Idle == [isActive |-> FALSE, appointmentId |-> Null, startedAt |-> Null, endsAt |-> Null]

\* slip: the occupancy is written without its end instant
OccupiedNoEnd(id, startsAt, endsAt) == [isActive |-> TRUE, appointmentId |-> id, startedAt |-> startsAt, endsAt |-> Null]

Occupied(id, startsAt, endsAt) == [isActive |-> TRUE, appointmentId |-> id, startedAt |-> startsAt, endsAt |-> endsAt]

\* slip: the buffer is added in the wrong unit
BufferEndNoScale(t) == t + BufferMin

BufferEnd(t) == t + BufferMin * MinuteSec

\* slip: the cooldown entry is written inactive
CooldownInactive(t) == [isActive |-> FALSE, appointmentId |-> Null, startedAt |-> Null, endsAt |-> BufferEnd(t)]

Cooldown(t) == [isActive |-> TRUE, appointmentId |-> Null, startedAt |-> Null, endsAt |-> BufferEnd(t)]

\* the invalid entry the read paths clear: active without an end instant
Corrupt == [isActive |-> TRUE, appointmentId |-> Null, startedAt |-> Null, endsAt |-> Null]

\* slip: the booking path adds the sweeper's buffer to endsAt
IsBusyStacked(cs, t) == cs.isActive /\ cs.endsAt # Null /\ t < cs.endsAt + BufferMin * MinuteSec

\* slip: the busy check compares with the start of the session
IsBusyUntilStart(cs, t) == cs.isActive /\ cs.endsAt # Null /\ t < cs.startedAt

\* `currentSession.isActive`, `endsAt` set and `now < sessionEndsAt`
IsBusy(cs, t) == cs.isActive /\ cs.endsAt # Null /\ t < cs.endsAt

\* slip: only an entry whose end has passed is cleared
ReconcileExpiredOnly(cs, t) == IF cs.isActive /\ cs.endsAt # Null /\ t >= cs.endsAt THEN Idle ELSE cs

\* the ledger a read path persists: an active entry that is not busy is cleared
Reconcile(cs, t) == IF cs.isActive /\ ~IsBusy(cs, t) THEN Idle ELSE cs

(***************************************************************************)
(* The amount charged: Math.ceil(perSession / 30 * duration) on IEEE-754   *)
(* doubles.  A double is its 53 significand bits (most significant first,  *)
(* the first one set) and the binary exponent of the first bit.  The bits  *)
(* are worked on in chunks that fit the integers of the checker.           *)
(***************************************************************************)
MantissaBits == 53

ChunkBits == 9

\* the w low bits of a natural number, most significant first
FixedBits(n, w) == [i \in 1 .. w |-> (n \div 2 ^ (w - i)) % 2]

\* the bits of a natural number without leading zeros (none for 0)
Bits(n) == FixedBits(n, CHOOSE k \in 0 .. 31 : n < 2 ^ k /\ (k = 0 \/ n >= 2 ^ (k - 1)))

\* the natural number of a bit sequence
RECURSIVE BitsValue(_)
BitsValue(b) ==
  IF Len(b) = 0 THEN 0 ELSE 2 * BitsValue(SubSeq(b, 1, Len(b) - 1)) + b[Len(b)]

\* a bit sequence plus one; one bit longer when every bit was set
Increment(b) ==
  IF \A i \in 1 .. Len(b) : b[i] = 1 THEN <<1>> \o [i \in 1 .. Len(b) |-> 0]
  ELSE LET z == CHOOSE i \in 1 .. Len(b) : b[i] = 0 /\ \A j \in i + 1 .. Len(b) : b[j] = 1
       IN [i \in 1 .. Len(b) |-> IF i < z THEN b[i] ELSE IF i = z THEN 1 ELSE 0]

\* round to nearest, ties to even: the bits beyond the 53rd and `sticky`
\* (set when a non-zero remainder lies beyond the bits) decide
RoundNearestEven(bits, sticky, e) ==
  LET keep == SubSeq(bits, 1, MantissaBits)
      guard == IF Len(bits) > MantissaBits THEN bits[MantissaBits + 1] ELSE 0
      rest == sticky \/ \E i \in MantissaBits + 2 .. Len(bits) : bits[i] = 1
      up == guard = 1 /\ (rest \/ keep[MantissaBits] = 1)
      inc == IF up THEN Increment(keep) ELSE keep
  IN IF Len(inc) > MantissaBits
     THEN [m |-> SubSeq(inc, 1, MantissaBits), e |-> e + 1]
     ELSE [m |-> inc, e |-> e]

\* the exponent of p / q: the e with q * 2^e <= p < q * 2^(e + 1)
RECURSIVE QuotientExponent(_, _)
QuotientExponent(p, q) ==
  IF p < q THEN QuotientExponent(2 * p, q) - 1
  ELSE IF p >= 2 * q THEN QuotientExponent(p, 2 * q) + 1
  ELSE 0

\* n more chunks of the long division of rem by den, and what remains
RECURSIVE DivBits(_, _, _)
DivBits(rem, den, n) ==
  IF n = 0 THEN [bits |-> <<>>, rem |-> rem]
  ELSE LET scaled == rem * 2 ^ ChunkBits
           rest == DivBits(scaled % den, den, n - 1)
       IN [bits |-> FixedBits(scaled \div den, ChunkBits) \o rest.bits, rem |-> rest.rem]

\* the double p / q of two positive integers
FloatDiv(p, q) ==
  LET e == QuotientExponent(p, q)
      num == IF e < 0 THEN p * 2 ^ (-e) ELSE p
      den == IF e < 0 THEN q ELSE q * 2 ^ e
      tail == DivBits(num - den, den, 6)
  IN RoundNearestEven(<<1>> \o tail.bits, tail.rem # 0, e)

\* the exact product of a bit sequence and a natural number d >= 2
RECURSIVE MulBits(_, _, _)
MulBits(b, d, carry) ==
  IF Len(b) = 0 THEN Bits(carry)
  ELSE LET w == IF Len(b) < ChunkBits THEN Len(b) ELSE ChunkBits
           v == BitsValue(SubSeq(b, Len(b) - w + 1, Len(b))) * d + carry
       IN MulBits(SubSeq(b, 1, Len(b) - w), d, v \div 2 ^ w) \o FixedBits(v % 2 ^ w, w)

\* the double x * d for an integer d >= 2
FloatMul(x, d) ==
  LET prod == MulBits(x.m, d, 0)
  IN RoundNearestEven(prod, FALSE, x.e + Len(prod) - MantissaBits)

\* Math.ceil of a positive double
FloatCeil(x) ==
  IF x.e < 0 THEN 1
  ELSE BitsValue(SubSeq(x.m, 1, x.e + 1))
       + (IF \E i \in x.e + 2 .. MantissaBits : x.m[i] = 1 THEN 1 ELSE 0)

\* slip: the amount in exact arithmetic
AmountExact(perSession, duration) == (perSession * duration + 29) \div 30

\* perMinuteRate = perSession / 30; amount = Math.ceil(perMinuteRate * duration)
Amount(perSession, duration) ==
  IF perSession = 0 THEN 0
  ELSE FloatCeil(FloatMul(FloatDiv(perSession, 30), duration))

\* the amounts of the prices and durations of the store
PerSessions == 0 .. MaxPerSession

AmountTable == [p \in PerSessions, d \in DurationInputs |-> Amount(p, d)]

(***************************************************************************)
(* Appointments.                                                           *)
(***************************************************************************)
\* `${getHours()}:${getMinutes()}` as minute of the day
FormatHM(t) == ((ClockOrigin + t) \div MinuteSec) % (24 * 60)

\* `d = new Date(date); d.setHours(h, m, 0, 0)`: hm on the local day of date
SetHM(date, hm) == ((ClockOrigin + date) \div DaySec) * DaySec + hm * MinuteSec - ClockOrigin

\* slip: the session starts at the booking instant
SessionStartAtBooking(t) == t

SessionStart(t) == t + JoinLeadMin * MinuteSec

SessionEnd(a) == a.date + a.duration * MinuteSec

NewAppointment(u, th, d, t) ==
  [userId |-> u, therapistId |-> th, date |-> SessionStart(t),
   startTime |-> FormatHM(SessionStart(t)),
   endTime |-> FormatHM(SessionStart(t) + d * MinuteSec),
   duration |-> d, status |-> "scheduled", createdAt |-> t,
   amount |-> AmountTable[pricing[th], d], paidAt |-> t, meetingLink |-> t]

\* slip: the end of a session rewrites its duration to the time it took
CompleteAndCut(a, t) ==
  [a EXCEPT !.status = "completed",
            !.duration = IF t < a.date THEN 0 ELSE (t - a.date) \div MinuteSec]

\* `status = 'completed'` and save
Complete(a, t) == [a EXCEPT !.status = "completed"]

(***************************************************************************)
(* Responses.  `resp` is the answer of the last handler that ran.          *)
(***************************************************************************)
Response(op, code, msg, at, id) ==
  [op |-> op, code |-> code, msg |-> msg, at |-> at, id |-> id, wait |-> Null]

NoResponse == Response("none", 0, "", Null, Null)

\* a slot of `req` with no request in flight
NoRequest == [pc |-> "free", userId |-> "", therapistId |-> "", duration |-> 0, appt |-> Null]

\* an end-session request between its awaits: the appointment and the
\* therapist document it was populated with
NoEnding == [pc |-> "free", appt |-> Null, cs |-> Idle]

\* the call screen of a client: who is in the call of which appointment
NoCall == [who |-> "", appt |-> Null]

\* a run of the cron callback: its `now` and the rest of its query result
NoTick == [pc |-> "free", t0 |-> Null, todo |-> <<>>]

(***************************************************************************)
(* Initial states.                                                         *)
(***************************************************************************)
Init ==
  /\ now = 0
  /\ ledger = [th \in Therapists |-> Idle]
  /\ appts = <<>>
  /\ req = [s \in Requests |-> NoRequest]
  /\ resp = NoResponse
  /\ endedOk = {}
  /\ sweep = [k \in Ticks |-> NoTick]
  /\ pricing = Pricing
  /\ ending = NoEnding
  /\ call = NoCall

\* the clock moves on, up to the horizon of the run
AdvanceTo(horizon) ==
  /\ now + Step <= horizon
  /\ now' = now + Step
  /\ UNCHANGED <<ledger, appts, req, resp, endedOk, sweep, pricing, ending, call>>

Advance == AdvanceTo(MaxTime)

AdvanceRace == AdvanceTo(MaxRaceTime)

AdvanceLive == AdvanceTo(MaxLiveTime)

(***************************************************************************)
(* POST /instant-book.                                                     *)
(***************************************************************************)
\* the validation before the busy check: duration, therapist, pricing
\* slip: any duration is let through
ValidateAnyDuration(th, d) ==
  IF th = "" \/ d = 0 THEN Response("book", 400, "required", Null, Null)
  ELSE IF th \notin Therapists THEN Response("book", 404, "no-therapist", Null, Null)
  ELSE IF pricing[th] = 0 THEN Response("book", 400, "no-pricing", Null, Null)
  ELSE NoResponse

Validate(th, d) ==
  IF th = "" \/ d = 0 THEN Response("book", 400, "required", Null, Null)
  ELSE IF d \notin Durations THEN Response("book", 400, "bad-duration", Null, Null)
  ELSE IF th \notin Therapists THEN Response("book", 404, "no-therapist", Null, Null)
  ELSE IF pricing[th] = 0 THEN Response("book", 400, "no-pricing", Null, Null)
  ELSE NoResponse

\* slip: the rejection reports the start of the occupancy
BusyResponseStart(cs) == Response("book", 400, "busy", cs.startedAt, Null)

BusyResponse(cs) == Response("book", 400, "busy", cs.endsAt, Null)

BookedResponse(id, a) == Response("book", 200, "booked", a.date, id)

\* variant: a conditional write that leaves an active ledger alone
OccupyIfIdle(cs, id, a) == IF cs.isActive THEN cs ELSE Occupied(id, a.date, a.date + a.duration * MinuteSec)

\* slip: the occupancy is begun at the booking instant
OccupyFromBooking(cs, id, a) == Occupied(id, a.createdAt, a.date + a.duration * MinuteSec)

\* the ledger write of a request that has created appointment id
OccupyWrite(cs, id, a) == Occupied(id, a.date, a.date + a.duration * MinuteSec)

\* what the two notification calls of a booking can do
NotifyOutcomes == {"sent", "failed"}

\* slip: the notification calls without their try/catch
NotifyUncaught(teen, therapist) == teen = "failed" \/ therapist = "failed"

\* whether an exception of a notification call leaves its try block: both
\* blocks catch it and log
NotifyEscapes(teen, therapist) == FALSE

\* the answer after the notifications; an escaped exception would reach
\* the handler's catch
BookedOutcome(id, a, teen, therapist) ==
  IF NotifyEscapes(teen, therapist) THEN Response("book", 500, "error", Null, Null)
  ELSE BookedResponse(id, a)

\* the whole handler as one unit of work, for given notification outcomes
InstantBookMail(u, th, d, teen, therapist) ==
  /\ UNCHANGED <<now, req, endedOk, sweep, pricing, ending, call>>
  /\ IF Validate(th, d) # NoResponse
     THEN /\ resp' = Validate(th, d)
          /\ UNCHANGED <<ledger, appts>>
     ELSE IF IsBusy(ledger[th], now)
     THEN /\ resp' = BusyResponse(ledger[th])
          /\ UNCHANGED <<ledger, appts>>
     ELSE IF u \notin Users
     THEN /\ ledger' = [ledger EXCEPT ![th] = Reconcile(@, now)]
          /\ resp' = Response("book", 404, "no-user", Null, Null)
          /\ UNCHANGED appts
     ELSE LET a == NewAppointment(u, th, d, now)
              id == Len(appts) + 1
          IN /\ Len(appts) < MaxAppts
             /\ appts' = Append(appts, a)
             /\ ledger' = [ledger EXCEPT ![th] = OccupyWrite(@, id, a)]
             /\ resp' = BookedOutcome(id, a, teen, therapist)

\* the handler when both notifications go out
InstantBook(u, th, d) == InstantBookMail(u, th, d, "sent", "sent")

\* slip: the catch removes the appointment the request has created
RolledBack(ap, a) == ap

\* the appointments after the catch of a request that had created a: the
\* catch logs and answers, the record stays
KeptAfterFailure(ap, a) == Append(ap, a)

\* the handler when therapist.save() of the occupancy (line 145) rejects:
\* the exception reaches the handler's catch
InstantBookUnsaved(u, th, d) ==
  /\ Validate(th, d) = NoResponse
  /\ ~IsBusy(ledger[th], now)
  /\ u \in Users
  /\ Len(appts) < MaxAppts
  /\ appts' = KeptAfterFailure(appts, NewAppointment(u, th, d, now))
  /\ ledger' = [ledger EXCEPT ![th] = Reconcile(@, now)]
  /\ resp' = Response("book", 500, "error", Null, Null)
  /\ UNCHANGED <<now, req, endedOk, sweep, pricing, ending, call>>

\* the same handler cut at its awaits: read and check (lines 34-93), ...
BookCheck(s, u, th, d) ==
  /\ req[s].pc = "free"
  /\ \A r \in Requests : r < s => req[r].pc # "free"
  /\ UNCHANGED <<now, appts, endedOk, sweep, pricing, ending, call>>
  /\ IF Validate(th, d) # NoResponse
     THEN /\ resp' = Validate(th, d)
          /\ UNCHANGED <<ledger, req>>
     ELSE IF IsBusy(ledger[th], now)
     THEN /\ resp' = BusyResponse(ledger[th])
          /\ UNCHANGED <<ledger, req>>
     ELSE /\ ledger' = [ledger EXCEPT ![th] = Reconcile(@, now)]
          /\ IF u \notin Users
             THEN /\ resp' = Response("book", 404, "no-user", Null, Null)
                  /\ UNCHANGED req
             ELSE /\ req' = [req EXCEPT ![s] = [pc |-> "checked", userId |-> u, therapistId |-> th, duration |-> d, appt |-> Null]]
                  /\ UNCHANGED resp

\* ... Appointment.create (lines 95-136), ...
BookCreate(s) ==
  /\ req[s].pc = "checked"
  /\ Len(appts) < MaxAppts
  /\ appts' = Append(appts, NewAppointment(req[s].userId, req[s].therapistId, req[s].duration, now))
  /\ req' = [req EXCEPT ![s].pc = "created", ![s].appt = Len(appts) + 1]
  /\ UNCHANGED <<now, ledger, resp, endedOk, sweep, pricing, ending, call>>

\* ... and the occupancy write with the response (lines 138-206)
BookOccupy(s) ==
  /\ req[s].pc = "created"
  /\ LET id == req[s].appt
         th == req[s].therapistId
     IN /\ ledger' = [ledger EXCEPT ![th] = OccupyWrite(@, id, appts[id])]
        /\ resp' = BookedOutcome(id, appts[id], "sent", "sent")
  /\ req' = [req EXCEPT ![s] = NoRequest]
  /\ UNCHANGED <<now, appts, endedOk, sweep, pricing, ending, call>>

(***************************************************************************)
(* GET /therapist-status/:therapistId.                                     *)
(***************************************************************************)
\* slip: the end instant itself still counts as busy
StatusBusyInclusive(cs, t) == cs.isActive /\ cs.endsAt # Null /\ t <= cs.endsAt

\* the route's own test: `isActive`, `endsAt` set and `now < sessionEndsAt`
StatusBusy(cs, t) == cs.isActive /\ cs.endsAt # Null /\ t < cs.endsAt

StatusResponse(cs, t) ==
  IF StatusBusy(cs, t) THEN Response("status", 200, "busy", cs.endsAt, Null)
  ELSE Response("status", 200, "available", Null, Null)

TherapistStatus(th) ==
  /\ UNCHANGED <<now, appts, req, endedOk, sweep, pricing, ending, call>>
  /\ IF th \notin Therapists
     THEN /\ resp' = Response("status", 404, "no-therapist", Null, Null)
          /\ UNCHANGED ledger
     ELSE /\ ledger' = [ledger EXCEPT ![th] = Reconcile(@, now)]
          /\ resp' = StatusResponse(ledger[th], now)

(***************************************************************************)
(* POST /join-session/:appointmentId.                                      *)
(***************************************************************************)
FiveMinBefore(a) == a.date - JoinLeadMin * MinuteSec

\* slip: the wait is cut to whole minutes
WaitTimeFloor(a, t) == (FiveMinBefore(a) - t) \div MinuteSec

\* `Math.ceil((fiveMinBefore - now) / 60000)`
WaitTime(a, t) == (FiveMinBefore(a) - t + MinuteSec - 1) \div MinuteSec

\* the refusal of a join before the window: canJoinAt and the minutes to wait
TooEarly(a, id, t) ==
  [Response("join", 400, "too-early", FiveMinBefore(a), id) EXCEPT !.wait = WaitTime(a, t)]

\* slip: the end instant itself is already refused
JoinGateStrictEnd(c, id, a, t) ==
  IF c # a.userId /\ c # a.therapistId THEN Response("join", 403, "unauthorized", Null, id)
  ELSE IF t < FiveMinBefore(a) THEN TooEarly(a, id, t)
  ELSE IF t >= SessionEnd(a) THEN Response("join", 400, "ended", Null, id)
  ELSE Response("join", 200, "joined", Null, id)

\* slip: the window is tested before the caller
JoinGateWindowFirst(c, id, a, t) ==
  IF t < FiveMinBefore(a) THEN TooEarly(a, id, t)
  ELSE IF t > SessionEnd(a) THEN Response("join", 400, "ended", Null, id)
  ELSE IF c # a.userId /\ c # a.therapistId THEN Response("join", 403, "unauthorized", Null, id)
  ELSE Response("join", 200, "joined", Null, id)

\* the answer of the join gate for caller c on appointment a at instant t
JoinGate(c, id, a, t) ==
  IF c # a.userId /\ c # a.therapistId THEN Response("join", 403, "unauthorized", Null, id)
  ELSE IF t < FiveMinBefore(a) THEN TooEarly(a, id, t)
  ELSE IF t > SessionEnd(a) THEN Response("join", 400, "ended", Null, id)
  ELSE Response("join", 200, "joined", Null, id)

JoinSession(c, id) ==
  /\ resp' = IF id > Len(appts) THEN Response("join", 404, "no-appointment", Null, id)
             ELSE JoinGate(c, id, appts[id], now)
  /\ UNCHANGED <<now, ledger, appts, req, endedOk, sweep, pricing, ending, call>>

(***************************************************************************)
(* The join buttons of the clients.                                        *)
(***************************************************************************)
FiveMinutesAfterBooking(a) == a.createdAt + JoinLeadMin * MinuteSec

\* `sessionEndDate.setHours(endHours, endMinutes, 0, 0)` on the day of date
SessionEndDate(a) == SetHM(a.date, a.endTime)

\* the teen's view of appointment a at instant t
CanJoinSessionTeen(a, t) ==
  t >= FiveMinutesAfterBooking(a) /\ t <= SessionEndDate(a) /\ a.status = "scheduled"

\* the therapist's view
CanJoinSessionTherapist(a, t) ==
  t >= FiveMinutesAfterBooking(a) /\ t <= SessionEndDate(a)

(***************************************************************************)
(* POST /end-session/:appointmentId.                                       *)
(***************************************************************************)
\* `currentSession.appointmentId.toString()` throws a TypeError on null
RefThrows(cs) == cs.appointmentId = Null

\* slip: the cooldown is begun without comparing the appointment
EndLedgerAnyHolder(cs, id, t) == IF RefThrows(cs) THEN cs ELSE Cooldown(t)

\* slip: the handler leaves the ledger to the sweeper
EndLedgerKept(cs, id, t) == cs

\* the ledger after the handler has run for appointment id
EndLedger(cs, id, t) ==
  IF RefThrows(cs) THEN cs
  ELSE IF cs.appointmentId = id THEN Cooldown(t)
  ELSE cs

EndResponse(cs, id) ==
  IF RefThrows(cs) THEN Response("end", 500, "error", Null, id)
  ELSE Response("end", 200, "ended", Null, id)

\* the handler, whoever sent the request
EndRequest(id) ==
  /\ UNCHANGED <<now, req, sweep, pricing, ending>>
  /\ IF id > Len(appts)
     THEN /\ resp' = Response("end", 404, "no-appointment", Null, id)
          /\ UNCHANGED <<ledger, appts, endedOk>>
     ELSE LET th == appts[id].therapistId
          IN /\ appts' = [appts EXCEPT ![id] = Complete(@, now)]
             /\ ledger' = [ledger EXCEPT ![th] = EndLedger(@, id, now)]
             /\ resp' = EndResponse(ledger[th], id)
             /\ endedOk' = IF RefThrows(ledger[th]) THEN endedOk ELSE endedOk \cup {id}

EndSession(id) == EndRequest(id) /\ UNCHANGED call

\* the same handler cut at its awaits: findById with the populated
\* therapist document (lines 364-372), ...
EndRead(id) ==
  /\ ending.pc = "free"
  /\ UNCHANGED <<now, ledger, appts, req, endedOk, sweep, pricing, call>>
  /\ IF id > Len(appts)
     THEN /\ resp' = Response("end", 404, "no-appointment", Null, id)
          /\ UNCHANGED ending
     ELSE /\ ending' = [pc |-> "read", appt |-> id, cs |-> ledger[appts[id].therapistId]]
          /\ UNCHANGED resp

\* ... appointment.save() (lines 375-376), ...
EndSave ==
  /\ ending.pc = "read"
  /\ appts' = [appts EXCEPT ![ending.appt] = Complete(@, now)]
  /\ ending' = [ending EXCEPT !.pc = "saved"]
  /\ UNCHANGED <<now, ledger, req, resp, endedOk, sweep, pricing, call>>

\* ... and the comparison on the populated document with therapist.save()
\* and the response (lines 379-399)
EndWrite ==
  /\ ending.pc = "saved"
  /\ LET id == ending.appt
         th == appts[id].therapistId
         cs == EndLedger(ending.cs, id, now)
     IN /\ ledger' = IF cs = ending.cs THEN ledger ELSE [ledger EXCEPT ![th] = cs]
        /\ resp' = EndResponse(ending.cs, id)
        /\ endedOk' = IF RefThrows(ending.cs) THEN endedOk ELSE endedOk \cup {id}
  /\ ending' = NoEnding
  /\ UNCHANGED <<now, appts, req, sweep, pricing, call>>

(***************************************************************************)
(* The call screen of the clients (JitsiVideoCall and its parents).        *)
(***************************************************************************)
\* `sessionEndTime` the parents hand to the call screen
CallEndTime(a) == SetHM(a.date, a.startTime) + a.duration * MinuteSec

\* handleJoinSession: the button, the join request and, on success, the
\* call screen
HandleJoinSession(c, id) ==
  /\ call = NoCall
  /\ id <= Len(appts)
  /\ \/ c = appts[id].userId /\ CanJoinSessionTeen(appts[id], now)
     \/ c = appts[id].therapistId /\ CanJoinSessionTherapist(appts[id], now)
  /\ resp' = JoinGate(c, id, appts[id], now)
  /\ call' = IF resp'.code = 200 THEN [who |-> c, appt |-> id] ELSE call
  /\ UNCHANGED <<now, ledger, appts, req, endedOk, sweep, pricing, ending>>

\* endCall: the end-session request, hangup and onEndCall
EndCall(id) == EndRequest(id) /\ call' = NoCall

\* the custom end button
EndButton ==
  /\ call # NoCall
  /\ EndCall(call.appt)

\* updateTimer: `remaining === 0` calls endCall
Countdown ==
  /\ call # NoCall
  /\ now >= CallEndTime(appts[call.appt])
  /\ EndCall(call.appt)

\* the widget's own hangup: videoConferenceLeft and readyToClose call
\* onEndCall, which closes the call screen
WidgetHangup ==
  /\ call # NoCall
  /\ call' = NoCall
  /\ UNCHANGED <<now, ledger, appts, req, resp, endedOk, sweep, pricing, ending>>

(***************************************************************************)
(* The cron callback of startSessionAutoEndService.                        *)
(***************************************************************************)
\* the end instant the sweep recomputes from date, startTime and duration
\* slip: the duration is taken for hours
SweepEndHours(a) == SetHM(a.date, a.startTime) + a.duration * 60 * MinuteSec

SweepEnd(a) == SetHM(a.date, a.startTime) + a.duration * MinuteSec

\* slip: the query asks for the appointments that start from now on
OverdueFromNow(a, t) == a.status = "scheduled" /\ a.date >= t /\ t > SweepEnd(a)

Overdue(a, t) == a.status = "scheduled" /\ a.date <= t /\ t > SweepEnd(a)

\* the appointment pass from appointment i on; error is the exception that
\* leaves the loop for the callback's catch
RECURSIVE SweepAppointments(_, _, _, _)
SweepAppointments(i, ap, led, t) ==
  IF i > Len(ap) THEN [appts |-> ap, ledger |-> led, error |-> FALSE]
  ELSE IF ~Overdue(ap[i], t) THEN SweepAppointments(i + 1, ap, led, t)
  ELSE LET done == [ap EXCEPT ![i] = Complete(@, t)]
           th == ap[i].therapistId
       IN IF ~led[th].isActive THEN SweepAppointments(i + 1, done, led, t)
          ELSE IF RefThrows(led[th]) THEN [appts |-> done, ledger |-> led, error |-> TRUE]
          ELSE IF led[th].appointmentId = i
               THEN SweepAppointments(i + 1, done, [led EXCEPT ![th] = Idle], t)
          ELSE SweepAppointments(i + 1, done, led, t)

\* slip: the ledger pass without its extra buffer
LedgerExpiredAtEnd(cs, t) == cs.endsAt = Null \/ t > cs.endsAt

\* slip: an entry without endsAt is taken for one that has not run out
LedgerExpiredDated(cs, t) == cs.endsAt # Null /\ t > cs.endsAt + BufferMin * MinuteSec

\* `now > endsAt + 10 min`; new Date(null) is the epoch, long past
LedgerExpired(cs, t) == cs.endsAt = Null \/ t > cs.endsAt + BufferMin * MinuteSec

\* slip: the ledger pass clears every active entry
SweepLedgersActive(led, t) ==
  [th \in Therapists |-> IF led[th].isActive THEN Idle ELSE led[th]]

\* the ledger pass
SweepLedgers(led, t) ==
  [th \in Therapists |-> IF led[th].isActive /\ LedgerExpired(led[th], t) THEN Idle ELSE led[th]]

SweeperTick ==
  LET pass == SweepAppointments(1, appts, ledger, now)
  IN /\ appts' = pass.appts
     /\ ledger' = IF pass.error THEN pass.ledger ELSE SweepLedgers(pass.ledger, now)
     /\ resp' = Response("sweep", IF pass.error THEN 500 ELSE 0, "", Null, Null)
     /\ UNCHANGED <<now, req, endedOk, sweep, pricing, ending, call>>

\* The callback step by step, as its awaits let other work in between.
\* The callback starts: `now` is read and the query is sent.  cron starts
\* one run a minute, whether or not an earlier run has returned.
RECURSIVE ExpiredSessions(_, _, _)
ExpiredSessions(i, ap, t) ==
  IF i > Len(ap) THEN <<>>
  ELSE IF ap[i].status = "scheduled" /\ ap[i].date <= t
       THEN <<i>> \o ExpiredSessions(i + 1, ap, t)
       ELSE ExpiredSessions(i + 1, ap, t)

TickStart(k) ==
  /\ sweep[k].pc = "free"
  /\ \A j \in Ticks \ {k} : sweep[j].pc = "free" \/ sweep[j].t0 + MinuteSec <= now
  /\ sweep' = [sweep EXCEPT ![k] = [pc |-> "run", t0 |-> now,
                                    todo |-> ExpiredSessions(1, appts, now)]]
  /\ UNCHANGED <<now, ledger, appts, req, resp, endedOk, pricing, ending, call>>

\* one turn of the loop over the query result
TickAppointment(k) ==
  /\ sweep[k].pc = "run"
  /\ sweep[k].todo # <<>>
  /\ LET id == Head(sweep[k].todo)
         th == appts[id].therapistId
         rest == [sweep EXCEPT ![k].todo = Tail(@)]
     IN IF ~(sweep[k].t0 > SweepEnd(appts[id]))
        THEN /\ sweep' = rest
             /\ UNCHANGED <<ledger, appts, resp>>
        ELSE /\ appts' = [appts EXCEPT ![id] = Complete(@, sweep[k].t0)]
             /\ IF ~ledger[th].isActive
                THEN /\ sweep' = rest
                     /\ UNCHANGED <<ledger, resp>>
                ELSE IF RefThrows(ledger[th])
                THEN /\ sweep' = [sweep EXCEPT ![k] = NoTick]
                     /\ resp' = Response("sweep", 500, "", Null, Null)
                     /\ UNCHANGED ledger
                ELSE /\ sweep' = rest
                     /\ ledger' = [ledger EXCEPT ![th] = IF @.appointmentId = id THEN Idle ELSE @]
                     /\ UNCHANGED resp
  /\ UNCHANGED <<now, req, endedOk, pricing, ending, call>>

\* the ledger pass, after the loop
TickLedgers(k) ==
  /\ sweep[k].pc = "run"
  /\ sweep[k].todo = <<>>
  /\ ledger' = SweepLedgers(ledger, sweep[k].t0)
  /\ sweep' = [sweep EXCEPT ![k] = NoTick]
  /\ resp' = Response("sweep", 0, "", Null, Null)
  /\ UNCHANGED <<now, appts, req, endedOk, pricing, ending, call>>

\* the ledger pass at its own awaits: the query for the active therapists,
\* with the test of each document it returned (lines 56-64), ...
TherapistList == <<"t1", "t2">>

ExpiredTherapists(led, t) ==
  SelectSeq(TherapistList, LAMBDA th : led[th].isActive /\ LedgerExpired(led[th], t))

TickLedgersFind(k) ==
  /\ sweep[k].pc = "run"
  /\ sweep[k].todo = <<>>
  /\ sweep' = [sweep EXCEPT ![k] = [pc |-> "ledgers", t0 |-> @.t0,
                                    todo |-> ExpiredTherapists(ledger, @.t0)]]
  /\ UNCHANGED <<now, ledger, appts, req, resp, endedOk, pricing, ending, call>>

\* ... one therapist.save() of the idle entry (lines 66-72), ...
TickLedgerSave(k) ==
  /\ sweep[k].pc = "ledgers"
  /\ sweep[k].todo # <<>>
  /\ ledger' = [ledger EXCEPT ![Head(sweep[k].todo)] = Idle]
  /\ sweep' = [sweep EXCEPT ![k].todo = Tail(@)]
  /\ UNCHANGED <<now, appts, req, resp, endedOk, pricing, ending, call>>

\* ... and the return of the callback
TickReturn(k) ==
  /\ sweep[k].pc = "ledgers"
  /\ sweep[k].todo = <<>>
  /\ sweep' = [sweep EXCEPT ![k] = NoTick]
  /\ resp' = Response("sweep", 0, "", Null, Null)
  /\ UNCHANGED <<now, ledger, appts, req, endedOk, pricing, ending, call>>

(***************************************************************************)
(* Specifications.                                                         *)
(***************************************************************************)
\* requests served one at a time; join-session writes nothing to the record
\* store and is followed in SpecJoin
Next ==
  \/ Advance
  \/ \E u \in UserInputs, th \in TherapistInputs, d \in DurationInputs : InstantBook(u, th, d)
  \/ \E th \in TherapistInputs : TherapistStatus(th)
  \/ \E id \in AppointmentInputs : EndSession(id)
  \/ SweeperTick

Spec == Init /\ [][Next]_vars

\* the same requests over the short horizon: a session is booked, ended and
\* its cooldown runs out
NextShort ==
  \/ AdvanceRace
  \/ \E u \in UserInputs, th \in TherapistInputs, d \in DurationInputs : InstantBook(u, th, d)
  \/ \E th \in TherapistInputs : TherapistStatus(th)
  \/ \E id \in AppointmentInputs : EndSession(id)
  \/ SweeperTick

SpecShort == Init /\ [][NextShort]_vars

\* bookings whose notification calls succeed or throw, and the calls that
\* end their sessions
NextNotify ==
  \/ AdvanceRace
  \/ \E u \in UserInputs, th \in TherapistInputs, d \in DurationInputs :
       \E teen \in NotifyOutcomes, therapist \in NotifyOutcomes :
         InstantBookMail(u, th, d, teen, therapist)
  \/ \E id \in AppointmentInputs : EndSession(id)

SpecNotify == Init /\ [][NextNotify]_vars

\* bookings with a therapist of any configured per-session price
InitPricing ==
  /\ now = 0
  /\ ledger = [th \in Therapists |-> Idle]
  /\ appts = <<>>
  /\ req = [s \in Requests |-> NoRequest]
  /\ resp = NoResponse
  /\ endedOk = {}
  /\ sweep = [k \in Ticks |-> NoTick]
  /\ \E p \in PerSessions \ {0} : pricing = [Pricing EXCEPT !["t1"] = p]
  /\ ending = NoEnding
  /\ call = NoCall

NextPricing ==
  \E u \in UserInputs, th \in TherapistInputs, d \in DurationInputs : InstantBook(u, th, d)

SpecPricing == InitPricing /\ [][NextPricing]_vars

\* instant-book interleaved with the other requests at its awaits
NextRace ==
  \/ AdvanceRace
  \/ \E s \in Requests, u \in UserInputs, th \in TherapistInputs, d \in DurationInputs : BookCheck(s, u, th, d)
  \/ \E s \in Requests : BookCreate(s)
  \/ \E s \in Requests : BookOccupy(s)
  \/ \E th \in TherapistInputs : TherapistStatus(th)
  \/ \E id \in AppointmentInputs : EndSession(id)
  \/ SweeperTick

SpecRace == Init /\ [][NextRace]_vars

(***************************************************************************)
(* The external refund flow (not part of these routes): a scheduled        *)
(* appointment is cancelled.                                               *)
(***************************************************************************)
CancelAppointment(id) ==
  /\ id <= Len(appts)
  /\ appts[id].status = "scheduled"
  /\ appts' = [appts EXCEPT ![id].status = "cancelled"]
  /\ resp' = Response("cancel", 200, "cancelled", Null, id)
  /\ UNCHANGED <<now, ledger, req, endedOk, sweep, pricing, ending, call>>

NextCancel ==
  \/ Next
  \/ \E id \in AppointmentInputs : CancelAppointment(id)

SpecCancel == Init /\ [][NextCancel]_vars

(***************************************************************************)
(* Runs that start from the invalid ledger entry the read paths clear.     *)
(***************************************************************************)
InitHeal ==
  /\ now = 0
  /\ ledger = [th \in Therapists |-> Corrupt]
  /\ appts = <<>>
  /\ req = [s \in Requests |-> NoRequest]
  /\ resp = NoResponse
  /\ endedOk = {}
  /\ sweep = [k \in Ticks |-> NoTick]
  /\ pricing = Pricing
  /\ ending = NoEnding
  /\ call = NoCall

SpecHeal == InitHeal /\ [][NextRace]_vars

\* the same stale records with the handlers served one at a time over the
\* long horizon, so that sessions run to their end beside them
SpecStale == InitHeal /\ [][Next]_vars

\* bookings beside runs of the cron callback that take their time
NextTicks ==
  \/ Advance
  \/ \E u \in UserInputs, th \in TherapistInputs, d \in DurationInputs : InstantBook(u, th, d)
  \/ \E k \in Ticks : TickStart(k)
  \/ \E k \in Ticks : TickAppointment(k)
  \/ \E k \in Ticks : TickLedgers(k)

SpecTicks == Init /\ [][NextTicks]_vars

\* sessions that are ended by a call or by nobody, and no read path that
\* looks at the therapist; cron keeps starting the callback, so a tick that
\* has work to do is eventually run
NextLive ==
  \/ AdvanceLive
  \/ \E u \in UserInputs, th \in TherapistInputs, d \in DurationInputs : InstantBook(u, th, d)
  \/ \E id \in AppointmentInputs : EndSession(id)
  \/ SweeperTick

SpecLive == Init /\ [][NextLive]_vars /\ WF_vars(SweeperTick)

\* One booking that nobody ends, under a sweeper that runs every minute:
\* the clock moves a minute and the cron callback runs at the new instant.
MinuteTick ==
  LET t == now + MinuteSec
      pass == SweepAppointments(1, appts, ledger, t)
  IN /\ t <= MaxScenarioTime
     /\ now' = t
     /\ appts' = pass.appts
     /\ ledger' = IF pass.error THEN pass.ledger ELSE SweepLedgers(pass.ledger, t)
     /\ resp' = Response("sweep", IF pass.error THEN 500 ELSE 0, "", Null, Null)
     /\ UNCHANGED <<req, endedOk, sweep, pricing, ending, call>>

\* the booking, and further booking requests until its session's end
BookAlone(u, th, d) ==
  /\ IF appts = <<>> THEN TRUE ELSE now < SessionEnd(appts[1])
  /\ InstantBook(u, th, d)

NextScenario ==
  \/ MinuteTick
  \/ \E u \in UserInputs, th \in TherapistInputs, d \in DurationInputs : BookAlone(u, th, d)

SpecScenario == Init /\ [][NextScenario]_vars

(***************************************************************************)
(* The join gate on an appointment of any start instant (an appointment    *)
(* the slot flow stored ahead of time).                                    *)
(***************************************************************************)
JoinDates == {600, 630, 900, 1500}

StoredAppointment(date, d) ==
  [userId |-> "u1", therapistId |-> "t1", date |-> date,
   startTime |-> FormatHM(date), endTime |-> FormatHM(date + d * MinuteSec),
   duration |-> d, status |-> "scheduled", createdAt |-> 0,
   amount |-> AmountTable[Pricing["t1"], d], paidAt |-> 0, meetingLink |-> 0]

InitJoin ==
  /\ now = 0
  /\ ledger = [th \in Therapists |-> Idle]
  /\ \E date \in JoinDates, d \in Durations : appts = <<StoredAppointment(date, d)>>
  /\ req = [s \in Requests |-> NoRequest]
  /\ resp = NoResponse
  /\ endedOk = {}
  /\ sweep = [k \in Ticks |-> NoTick]
  /\ pricing = Pricing
  /\ ending = NoEnding
  /\ call = NoCall

NextJoin ==
  \/ Advance
  \/ \E c \in CallerInputs, id \in AppointmentInputs : JoinSession(c, id)

SpecJoin == InitJoin /\ [][NextJoin]_vars

\* a booking followed by join requests of its participants and of outsiders
NextBookJoin ==
  \/ AdvanceRace
  \/ \E u \in UserInputs, th \in TherapistInputs, d \in DurationInputs : InstantBook(u, th, d)
  \/ \E c \in CallerInputs, id \in AppointmentInputs : JoinSession(c, id)

SpecBookJoin == Init /\ [][NextBookJoin]_vars

\* status checks and bookings on ledgers of every kind: the stale record,
\* occupancies and cooldowns, running and run out (no sweeper clears them)
NextAvail ==
  \/ AdvanceLive
  \/ \E u \in UserInputs, th \in TherapistInputs, d \in DurationInputs : InstantBook(u, th, d)
  \/ \E th \in TherapistInputs : TherapistStatus(th)
  \/ \E id \in AppointmentInputs : EndSession(id)

SpecAvail == InitHeal /\ [][NextAvail]_vars

\* an end-session request that takes its time, beside status checks and
\* bookings
NextEnding ==
  \/ AdvanceLive
  \/ \E u \in UserInputs, th \in TherapistInputs, d \in DurationInputs : InstantBook(u, th, d)
  \/ \E th \in TherapistInputs : TherapistStatus(th)
  \/ \E id \in AppointmentInputs : EndRead(id)
  \/ EndSave
  \/ EndWrite

SpecEnding == Init /\ [][NextEnding]_vars

\* bookings and end-session calls beside a run of the cron callback that
\* is cut at every await
NextSweepRace ==
  \/ AdvanceLive
  \/ \E u \in UserInputs, th \in TherapistInputs, d \in DurationInputs : InstantBook(u, th, d)
  \/ \E id \in AppointmentInputs : EndSession(id)
  \/ TickStart(1)
  \/ TickAppointment(1)
  \/ TickLedgersFind(1)
  \/ TickLedgerSave(1)
  \/ TickReturn(1)

SpecSweepRace == Init /\ [][NextSweepRace]_vars

\* bookings whose occupancy write can fail
NextUnsaved ==
  \/ AdvanceRace
  \/ \E u \in UserInputs, th \in TherapistInputs, d \in DurationInputs : InstantBook(u, th, d)
  \/ \E u \in UserInputs, th \in TherapistInputs, d \in DurationInputs : InstantBookUnsaved(u, th, d)
  \/ \E id \in AppointmentInputs : EndSession(id)

SpecUnsaved == Init /\ [][NextUnsaved]_vars

\* a participant who joins the call of a booked session and leaves it
NextCall ==
  \/ AdvanceLive
  \/ \E u \in UserInputs, th \in TherapistInputs, d \in DurationInputs : InstantBook(u, th, d)
  \/ \E c \in CallerInputs, id \in AppointmentInputs : HandleJoinSession(c, id)
  \/ EndButton
  \/ Countdown
  \/ WidgetHangup

SpecCall == Init /\ [][NextCall]_vars

\* From some point on no request arrives: the records are left to the clock
\* and to the cron callback.  The therapist t1 is left with an active entry
\* of any kind (the stale record, a cooldown, the occupancy of a session
\* nobody ended), t2 idle or with the stale record.
DrainDates == {300, 600}

InitDrain ==
  /\ now = 0
  /\ \E stored \in {<<>>} \cup {<<StoredAppointment(date, 30)>> : date \in DrainDates} :
       /\ appts = stored
       /\ \E cs \in {Corrupt, Cooldown(0)}
                     \cup {Occupied(1, stored[id].date, SessionEnd(stored[id])) : id \in 1 .. Len(stored)} :
            \E other \in {Idle, Corrupt} :
              ledger = [th \in Therapists |-> IF th = "t1" THEN cs ELSE other]
  /\ req = [s \in Requests |-> NoRequest]
  /\ resp = NoResponse
  /\ endedOk = {}
  /\ sweep = [k \in Ticks |-> NoTick]
  /\ pricing = Pricing
  /\ ending = NoEnding
  /\ call = NoCall

NextDrain ==
  \/ Advance
  \/ SweeperTick

\* cron starts the callback every minute and the clock moves on
SpecDrain == InitDrain /\ [][NextDrain]_vars /\ WF_vars(SweeperTick) /\ WF_vars(Advance)

\* every operation of the routes and the cron callback, one at a time
NextFrame ==
  \/ AdvanceLive
  \/ \E u \in UserInputs, th \in TherapistInputs, d \in DurationInputs : InstantBook(u, th, d)
  \/ \E th \in TherapistInputs : TherapistStatus(th)
  \/ \E c \in CallerInputs, id \in AppointmentInputs : JoinSession(c, id)
  \/ \E id \in AppointmentInputs : EndSession(id)
  \/ SweeperTick

SpecFrame == Init /\ [][NextFrame]_vars

(***************************************************************************)
(* Properties.                                                             *)
(***************************************************************************)
Scheduled(id) == id <= Len(appts) /\ appts[id].status = "scheduled"

\* the session intervals [date, date + duration) of a and b intersect
Overlap(a, b) == a.date < b.date + b.duration * 60 /\ b.date < a.date + a.duration * 60

ValidBooking(th, d) == th \in Therapists /\ d \in Durations /\ pricing[th] # 0

\* C1: with every instant-book request served as one unit of work, no
\* therapist ever has two scheduled appointments whose session intervals
\* [date, date + duration) overlap.
C1_NoDoubleBooking ==
  \A i, j \in 1 .. Len(appts) :
    (i < j /\ appts[i].therapistId = appts[j].therapistId
       /\ appts[i].status = "scheduled" /\ appts[j].status = "scheduled")
    => ~Overlap(appts[i], appts[j])

\* two scheduled appointments of one therapist exist side by side
C1_TwoScheduled ==
  \E i, j \in 1 .. Len(appts) :
    /\ i < j
    /\ appts[i].therapistId = appts[j].therapistId
    /\ appts[i].status = "scheduled" /\ appts[j].status = "scheduled"

\* C2: an instant-book request that reaches the busy check while the ledger
\* is active with endsAt set and now < endsAt is answered "busy" with
\* availableAt = endsAt (so availableAt >= now), creates no appointment and
\* leaves the ledger as it was.
C2_BusyRejected ==
  [][\A u \in UserInputs, th \in Therapists, d \in Durations :
       (/\ ValidBooking(th, d)
        /\ ledger[th].isActive /\ ledger[th].endsAt # Null /\ now < ledger[th].endsAt
        /\ InstantBook(u, th, d))
       => /\ resp' = Response("book", 400, "busy", ledger[th].endsAt, Null)
          /\ resp'.at >= now
          /\ appts' = appts
          /\ ledger' = ledger]_vars

\* a booking was just refused while a live appointment holds the ledger
C2_RefusedWhileOccupied ==
  /\ resp.op = "book" /\ resp.msg = "busy"
  /\ ledger["t1"].appointmentId # Null
  /\ resp.at = ledger["t1"].endsAt
  /\ now < ledger["t1"].endsAt

\* C3: a request that passed the availability check goes on to create its
\* appointment and to write occupancy without looking at the ledger again:
\* it succeeds and the ledger references its appointment, whatever another
\* request wrote in between.  Two requests that both checked an idle
\* therapist therefore both succeed (the reachable state C3_OverBooked).
C3_CheckThenOccupyRace ==
  [][\A s \in Requests :
       /\ (req[s].pc = "checked" /\ req'[s].pc = "created")
          => /\ Len(appts') = Len(appts) + 1
             /\ appts'[Len(appts')].status = "scheduled"
             /\ appts'[Len(appts')].therapistId = req[s].therapistId
       /\ (req[s].pc = "created" /\ req'[s].pc = "free")
          => /\ resp'.op = "book" /\ resp'.code = 200 /\ resp'.id = req[s].appt
             /\ ledger'[req[s].therapistId].isActive
             /\ ledger'[req[s].therapistId].appointmentId = req[s].appt]_vars

\* both requests have answered; two scheduled appointments of the therapist
\* overlap and the ledger references only the one written last
C3_OverBooked ==
  /\ \A s \in Requests : req[s].pc = "free"
  /\ Len(appts) = 2
  /\ appts[1].therapistId = appts[2].therapistId
  /\ appts[1].status = "scheduled" /\ appts[2].status = "scheduled"
  /\ Overlap(appts[1], appts[2])
  /\ resp.op = "book" /\ resp.code = 200
  /\ ledger[appts[1].therapistId].appointmentId = resp.id

\* C4: end-session invoked again on an appointment that a first end-session
\* call ended successfully leaves the status completed and answers success.
C4_IdempotentEnd ==
  [][\A id \in AppointmentInputs :
       (id \in endedOk /\ EndSession(id))
       => /\ appts'[id].status = "completed"
          /\ resp'.code = 200]_vars

\* C5: the status of an appointment only moves scheduled -> completed or
\* scheduled -> cancelled; a completed or cancelled appointment keeps its
\* status.
C5_StatusMonotonic ==
  [][\A id \in 1 .. Len(appts) :
       /\ appts'[id].status # appts[id].status
          => appts[id].status = "scheduled" /\ appts'[id].status \in {"completed", "cancelled"}
       /\ appts[id].status \in {"completed", "cancelled"}
          => appts'[id].status = appts[id].status]_vars

\* C6: end-session for appointment A while the ledger references another
\* appointment, or none, leaves the ledger exactly as it was; only the
\* status of A changes.
C6_EndKeepsForeignLedger ==
  [][\A id \in AppointmentInputs :
       (/\ id <= Len(appts)
        /\ ledger[appts[id].therapistId].appointmentId # id
        /\ EndSession(id))
       => /\ ledger' = ledger
          /\ appts' = [appts EXCEPT ![id].status = "completed"]]_vars

\* end-session has just answered for A while a scheduled appointment B
\* holds the ledger
C6_EndedBesideNewerBooking ==
  /\ resp.op = "end" /\ resp.code = 200
  /\ ledger["t1"].appointmentId # Null
  /\ ledger["t1"].appointmentId # resp.id
  /\ Scheduled(ledger["t1"].appointmentId)
  /\ appts[resp.id].status = "completed"

\* C7 as stated: after every end-session call at time t on an existing
\* appointment the ledger is active with endsAt >= t, whatever it held.
C7_CooldownAfterEveryEnd ==
  [][\A id \in AppointmentInputs :
       (id <= Len(appts) /\ EndSession(id))
       => /\ ledger'[appts[id].therapistId].isActive
          /\ ledger'[appts[id].therapistId].endsAt >= now]_vars

\* C7 amended: after an end-session call at time t on the appointment the
\* ledger references, the ledger is active with endsAt >= t.
C7_CooldownAfterEndOfHolder ==
  [][\A id \in AppointmentInputs :
       (/\ id <= Len(appts)
        /\ ledger[appts[id].therapistId].appointmentId = id
        /\ EndSession(id))
       => /\ ledger'[appts[id].therapistId].isActive
          /\ ledger'[appts[id].therapistId].endsAt >= now]_vars

\* end-session has just put the ledger of the holder into cooldown
C7_CooldownBegun ==
  /\ resp.op = "end" /\ resp.code = 200
  /\ appts[resp.id].status = "completed"
  /\ ledger[appts[resp.id].therapistId].isActive
  /\ ledger[appts[resp.id].therapistId].appointmentId = Null
  /\ ledger[appts[resp.id].therapistId].endsAt > now

InCooldown(cs, t) == cs.isActive /\ cs.appointmentId = Null /\ cs.endsAt # Null /\ t < cs.endsAt

\* C8: end-session at time t for the appointment the ledger references
\* writes {isActive, appointmentId = null, startedAt = null, endsAt = t +
\* 10 min}; until endsAt no step changes that entry (status checks and
\* sweeper ticks included) and every instant-book request that reaches the
\* busy check is refused with availableAt = endsAt.
C8_CooldownBlocksRebooking ==
  [][\A th \in Therapists :
       /\ \A id \in AppointmentInputs :
            (id <= Len(appts) /\ appts[id].therapistId = th
               /\ ledger[th].appointmentId = id /\ EndSession(id))
            => ledger'[th] = [isActive |-> TRUE, appointmentId |-> Null,
                              startedAt |-> Null, endsAt |-> now + 10 * 60]
       /\ (InCooldown(ledger[th], now) /\ now' < ledger[th].endsAt)
            => ledger'[th] = ledger[th]
       /\ \A u \in UserInputs, d \in Durations :
            (ValidBooking(th, d) /\ InCooldown(ledger[th], now) /\ InstantBook(u, th, d))
            => /\ resp' = Response("book", 400, "busy", ledger[th].endsAt, Null)
               /\ appts' = appts]_vars

\* a booking was just refused during the cooldown of an ended session
C8_RefusedInCooldown ==
  /\ resp.op = "book" /\ resp.msg = "busy"
  /\ InCooldown(ledger["t1"], now)
  /\ resp.at = ledger["t1"].endsAt
  /\ \E id \in 1 .. Len(appts) : appts[id].status = "completed"

IsCorrupt(cs) == cs.isActive /\ cs.endsAt = Null

\* C9: a status check, or the read-and-check step of an instant-book
\* request, that observes an active ledger without endsAt persists the idle
\* ledger, raises no error, and treats the therapist as available.
C9_SelfHealing ==
  [][\A th \in Therapists :
       IsCorrupt(ledger[th])
       => /\ TherapistStatus(th)
             => /\ ledger'[th] = Idle
                /\ resp' = Response("status", 200, "available", Null, Null)
          /\ \A s \in Requests, u \in UserInputs, d \in Durations :
               (ValidBooking(th, d) /\ BookCheck(s, u, th, d))
               => /\ ledger'[th] = Idle
                  /\ resp'.code # 500 /\ resp'.msg # "busy"
                  /\ u \in Users => req'[s].pc = "checked"]_vars

\* the status check has healed t1 (t2 is still as the run began)
C9_HealedByStatusCheck ==
  /\ resp = Response("status", 200, "available", Null, Null)
  /\ ledger["t1"] = Idle
  /\ IsCorrupt(ledger["t2"])

\* the booking that observed the invalid entry went on to book
C9_BookedAfterHeal ==
  /\ IsCorrupt(ledger["t2"])
  /\ \E s \in Requests : req[s].pc = "checked" /\ req[s].therapistId = "t1"
  /\ ledger["t1"] = Idle

\* C10: for a participant, the join request succeeds exactly when
\* start - 5 min <= now <= end; before that it is refused as too early and
\* after end it is refused as ended.
C10_JoinWindow ==
  [][\A id \in AppointmentInputs, c \in CallerInputs :
       (/\ id <= Len(appts)
        /\ c \in {appts[id].userId, appts[id].therapistId}
        /\ JoinSession(c, id))
       => LET start == appts[id].date
              end == appts[id].date + appts[id].duration * 60
          IN /\ (resp'.code = 200) <=> (start - 5 * 60 <= now /\ now <= end)
             /\ now < start - 5 * 60 => resp'.msg = "too-early"
             /\ now > end => resp'.msg = "ended"]_vars

\* a join accepted at the first instant of the window
C10_JoinedAtWindowStart ==
  /\ resp.op = "join" /\ resp.code = 200
  /\ now = appts[resp.id].date - 5 * 60

\* C11: a join request of a caller who is neither the booking user nor the
\* assigned therapist is answered "unauthorized" at every instant (before,
\* inside and after the join window) and never gets the meeting link.
C11_JoinAuthorization ==
  [][\A id \in AppointmentInputs, c \in CallerInputs :
       (/\ id <= Len(appts)
        /\ c # appts[id].userId /\ c # appts[id].therapistId
        /\ JoinSession(c, id))
       => resp' = Response("join", 403, "unauthorized", Null, id)]_vars

\* an outsider was just refused before the window opens
C11_RefusedBeforeWindow ==
  /\ resp.op = "join" /\ resp.code = 403
  /\ now < appts[resp.id].date - 5 * 60

\* C12: a successful instant-book at time b with duration d adds exactly one
\* appointment, scheduled, with date = b + 5 min and duration d; the ledger
\* becomes {isActive, appointmentId = the new one, startedAt = b + 5 min,
\* endsAt = b + 5 min + d}; the response carries canJoinAt = b + 5 min.
C12_BookingEffects ==
  [][\A u \in UserInputs, th \in Therapists, d \in Durations :
       (InstantBook(u, th, d) /\ resp'.code = 200)
       => /\ Len(appts') = Len(appts) + 1
          /\ \A i \in 1 .. Len(appts) : appts'[i] = appts[i]
          /\ appts'[Len(appts')].status = "scheduled"
          /\ appts'[Len(appts')].userId = u
          /\ appts'[Len(appts')].therapistId = th
          /\ appts'[Len(appts')].date = now + 5 * 60
          /\ appts'[Len(appts')].duration = d
          /\ ledger'[th] = [isActive |-> TRUE, appointmentId |-> Len(appts'),
                            startedAt |-> now + 5 * 60,
                            endsAt |-> now + 5 * 60 + d * 60]
          /\ \A o \in Therapists \ {th} : ledger'[o] = ledger[o]
          /\ resp'.at = now + 5 * 60 /\ resp'.id = Len(appts')]_vars

\* a 60-minute booking has just succeeded
C12_JustBooked ==
  /\ resp.op = "book" /\ resp.code = 200
  /\ appts[resp.id].duration = 60
  /\ appts[resp.id].createdAt = now
  /\ ledger[appts[resp.id].therapistId].appointmentId = resp.id

\* C13: for an instant booking made at time b, a join request of a participant
\* at any time before the advertised canJoinAt (the appointment's date,
\* b + 5 min) is answered "too early".
C13_JoinUnlockDelay ==
  [][\A id \in AppointmentInputs, c \in CallerInputs :
       (/\ id <= Len(appts)
        /\ c \in {appts[id].userId, appts[id].therapistId}
        /\ now < appts[id].date
        /\ JoinSession(c, id))
       => resp'.msg = "too-early"]_vars

\* C14: when a sweeper tick completes an overdue appointment A while the
\* therapist's ledger still references A, the ledger is put into cooldown
\* (isActive, appointmentId = null, endsAt = now + 10 min), as an explicit
\* end-session call would do, and is not cleared to idle.
C14_SweepBeginsCooldown ==
  [][\A id \in AppointmentInputs :
       (/\ SweeperTick
        /\ Scheduled(id)
        /\ appts'[id].status = "completed"
        /\ ledger[appts[id].therapistId].isActive
        /\ ledger[appts[id].therapistId].appointmentId = id)
       => ledger'[appts[id].therapistId] =
            [isActive |-> TRUE, appointmentId |-> Null, startedAt |-> Null,
             endsAt |-> now + 10 * 60]]_vars

\* C15: within one sweeper tick a failure on one appointment or therapist
\* prevents neither the completion of the remaining overdue appointments nor
\* the ledger pass: after the tick every overdue appointment is completed
\* and every active ledger past endsAt + 10 min (or without endsAt) is idle.
C15_SweepFailureIsolation ==
  [][SweeperTick
       => /\ \A id \in 1 .. Len(appts) :
               Overdue(appts[id], now) => appts'[id].status = "completed"
          /\ \A th \in Therapists :
               (/\ ledger[th].isActive
                /\ (ledger[th].endsAt = Null \/ now > ledger[th].endsAt + 10 * 60))
               => ~ledger'[th].isActive]_vars

\* C16: sweeper ticks are serialized: no tick starts while an earlier one is
\* still in progress, so at most one run of the callback is under way.
C16_TicksSerialized ==
  \A j \in Ticks, k \in Ticks :
    (j # k) => (sweep[j].pc = "free" \/ sweep[k].pc = "free")

\* C17: every scheduled appointment whose end instant (date + duration) has
\* passed is eventually completed by the sweeper, as long as ticks keep
\* occurring, with no end-session call and no read path involved.
C17_AutoCompletion ==
  \A id \in AppointmentInputs :
    (Scheduled(id) /\ now > appts[id].date + appts[id].duration * 60)
      ~> (id <= Len(appts) /\ appts[id].status = "completed")

\* a tick has completed a session that nobody ended
C17_AutoCompleted ==
  /\ resp.op = "sweep"
  /\ \E id \in 1 .. Len(appts) :
       /\ id \notin endedOk
       /\ appts[id].status = "completed"
       /\ now > appts[id].date + appts[id].duration * 60

\* C18: after a booking at T0 of duration d that nobody ends, with a sweeper
\* tick every minute, from T0 + 5 min + d + 10 min on the appointment is
\* completed and the therapist's ledger is idle; a further booking request
\* for the therapist before the session's end (T0 + 5 min + d) is refused
\* with availableAt = T0 + 5 min + d (d = 30: T0 + 35 min, and idle by
\* T0 + 45 min).
C18_BoundedReconciliation ==
  /\ [](\A d \in Durations :
          (/\ Len(appts) = 1
           /\ appts[1].duration = d
           /\ now >= appts[1].createdAt + (5 + d + 10) * 60)
          => /\ appts[1].status = "completed"
             /\ ledger[appts[1].therapistId] =
                  [isActive |-> FALSE, appointmentId |-> Null,
                   startedAt |-> Null, endsAt |-> Null])
  /\ [][\A u \in UserInputs, d \in Durations :
          (/\ Len(appts) = 1
           /\ now < appts[1].createdAt + (5 + appts[1].duration) * 60
           /\ BookAlone(u, appts[1].therapistId, d))
          => /\ resp'.code = 400 /\ resp'.msg = "busy"
             /\ resp'.at = appts[1].createdAt + (5 + appts[1].duration) * 60
             /\ appts' = appts /\ ledger' = ledger]_vars

\* 45 minutes after a 30-minute booking that nobody ended
C18_ReconciledAfter45Min ==
  /\ Len(appts) = 1
  /\ appts[1].duration = 30
  /\ now = appts[1].createdAt + 45 * 60
  /\ appts[1].status = "completed"
  /\ endedOk = {}
  /\ ~ledger[appts[1].therapistId].isActive

\* C19: the ledger pass of a sweeper tick clears a ledger only when
\* now > endsAt + 10 min (an active ledger without endsAt counts as long
\* expired), and never clears a ledger with now < endsAt, which the booking
\* and status paths would still report busy.
C19_LedgerPassAfterBuffer ==
  [][SweeperTick
       => LET mid == SweepAppointments(1, appts, ledger, now).ledger
          IN \A th \in Therapists :
               /\ (ledger'[th] # mid[th])
                    => /\ mid[th].isActive
                       /\ (mid[th].endsAt = Null \/ now > mid[th].endsAt + 10 * 60)
               /\ (mid[th].isActive /\ mid[th].endsAt # Null /\ now < mid[th].endsAt)
                    => ledger'[th] = mid[th]]_vars

\* a tick found the cooldown of an ended session more than ten minutes
\* past its end and cleared it
C19_ClearedAfterBuffer ==
  /\ resp.op = "sweep" /\ resp.code = 0
  /\ \E id \in 1 .. Len(appts) :
       /\ id \in endedOk
       /\ ledger[appts[id].therapistId] = Idle
       /\ now > appts[id].createdAt + 2 * 10 * 60

\* C20: once end-session has set the cooldown's endsAt (= t + 10 min), an
\* instant-book request that reaches the busy check at now >= endsAt is not
\* refused as busy and resets the stale ledger to idle before it goes on,
\* also while the sweeper (which waits until endsAt + 10 min) has not
\* cleared the ledger: the cooldown is a single ten minutes.
C20_SingleCooldown ==
  [][\A s \in Requests, u \in UserInputs, th \in Therapists, d \in Durations :
       (/\ ValidBooking(th, d)
        /\ ledger[th].isActive
        /\ ledger[th].appointmentId = Null
        /\ ledger[th].endsAt # Null
        /\ now >= ledger[th].endsAt
        /\ BookCheck(s, u, th, d))
       => /\ ledger'[th] = [isActive |-> FALSE, appointmentId |-> Null,
                            startedAt |-> Null, endsAt |-> Null]
          /\ IF u \in Users
             THEN req'[s].pc = "checked" /\ req'[s].therapistId = th
             ELSE resp' = Response("book", 404, "no-user", Null, Null)]_vars

\* a request has passed the busy check within twenty minutes of the first
\* booking, after that booking's session was ended: too early for the
\* sweeper to have cleared the cooldown
C20_PassedAfterCooldown ==
  /\ Len(appts) = 1
  /\ 1 \in endedOk
  /\ now >= 10 * 60
  /\ now <= appts[1].createdAt + 2 * 10 * 60
  /\ ledger[appts[1].therapistId] = Idle
  /\ \E s \in Requests :
       req[s].pc = "checked" /\ req[s].therapistId = appts[1].therapistId

\* C21: no operation (join, end-session, status check, later bookings,
\* sweeper ticks) changes an existing appointment's userId, therapistId,
\* date, duration, payment snapshot or meetingLink, and no appointment is
\* removed; only the status field changes after creation.
C21_AppointmentImmutable ==
  [][/\ Len(appts') >= Len(appts)
     /\ \A id \in 1 .. Len(appts) :
          /\ appts'[id].userId = appts[id].userId
          /\ appts'[id].therapistId = appts[id].therapistId
          /\ appts'[id].date = appts[id].date
          /\ appts'[id].duration = appts[id].duration
          /\ appts'[id].amount = appts[id].amount
          /\ appts'[id].paidAt = appts[id].paidAt
          /\ appts'[id].meetingLink = appts[id].meetingLink]_vars

\* an appointment was completed by the sweeper, a later one ended by a
\* call after a participant joined it
C21_EndedAndSwept ==
  /\ Len(appts) = 2
  /\ 1 \notin endedOk
  /\ appts[1].status = "completed"
  /\ 2 \in endedOk
  /\ resp.op = "join" /\ resp.code = 200 /\ resp.id = 2

\* C22: an instant-book request that fails validation (therapistId missing,
\* duration not 30 or 60), finds no therapist, no pricing, the therapist
\* busy or no user is refused, creates no appointment and leaves every
\* ledger as it was or idle, never occupied by the request.
C22_RejectedBookingNoEffect ==
  [][\A u \in UserInputs, th \in TherapistInputs, d \in DurationInputs :
       (/\ InstantBook(u, th, d)
        /\ \/ th = ""
           \/ d \notin {30, 60}
           \/ th \notin Therapists
           \/ pricing[th] = 0
           \/ (ledger[th].isActive /\ ledger[th].endsAt # Null /\ now < ledger[th].endsAt)
           \/ u \notin Users)
       => /\ resp'.op = "book" /\ resp'.code \in {400, 404}
          /\ appts' = appts
          /\ \A t \in Therapists :
               \/ ledger'[t] = ledger[t]
               \/ ledger'[t] = [isActive |-> FALSE, appointmentId |-> Null,
                                startedAt |-> Null, endsAt |-> Null]]_vars

\* a request of an unknown user was refused after it had cleared the
\* therapist's expired cooldown
C22_RefusedUnknownUser ==
  /\ resp.op = "book" /\ resp.code = 404 /\ resp.msg = "no-user"
  /\ \E id \in 1 .. Len(appts) :
       /\ id \in endedOk
       /\ ledger[appts[id].therapistId] = Idle
       /\ now >= appts[id].createdAt + 10 * 60

C24_Pricing ==
  \A id \in 1 .. Len(appts) :
    /\ appts[id].duration = 30 => appts[id].amount = pricing[appts[id].therapistId]
    /\ appts[id].duration = 60 => appts[id].amount = 2 * pricing[appts[id].therapistId]

\* C25: for every instant-booked appointment (date = createdAt + 5 min)
\* with status scheduled and every instant, the join button of the teen and
\* of the therapist is enabled exactly when the join gate of the server
\* would accept the participant.
C25_ClientServerAgree ==
  \A id \in 1 .. Len(appts) :
    LET a == appts[id] IN
      (a.status = "scheduled" /\ a.date = a.createdAt + JoinLeadMin * MinuteSec) =>
        /\ CanJoinSessionTeen(a, now) <=> (JoinGate(a.userId, id, a, now).code = 200)
        /\ CanJoinSessionTherapist(a, now) <=> (JoinGate(a.therapistId, id, a, now).code = 200)

\* C26: a join request of a participant before start - 5 min is refused
\* with canJoinAt = start - 5 min and a wait of N = ceil((start - 5 min -
\* now) / 60 s) minutes; N is at least 1, and N does not grow from one
\* refused request to a later one.
C26_TooEarlyWait ==
  [][\A c \in CallerInputs, id \in AppointmentInputs :
       (/\ JoinSession(c, id)
        /\ id <= Len(appts)
        /\ c \in {appts[id].userId, appts[id].therapistId}
        /\ now < appts[id].date - 5 * 60)
       => /\ resp'.code = 400
          /\ resp'.at = appts[id].date - 5 * 60
          /\ resp'.wait * 60 >= resp'.at - now
          /\ (resp'.wait - 1) * 60 < resp'.at - now
          /\ resp'.wait >= 1
          /\ (resp.op = "join" /\ resp.msg = "too-early" /\ resp.id = id)
               => resp'.wait <= resp.wait]_vars

\* a refusal half a minute before the window opens, that followed an
\* earlier refusal: the wait is rounded up to one minute
C26_RefusedShortlyBefore ==
  /\ resp.op = "join" /\ resp.msg = "too-early"
  /\ now > 0
  /\ resp.at - now < 60
  /\ resp.wait = 1

\* C27: therapist-status reports isAvailable = false, with availableAt =
\* endsAt, exactly when an instant-book request for that therapist at the
\* same instant would be rejected as busy; whenever it reports
\* isAvailable = true the persisted ledger is idle afterwards.
C27_StatusAgreesWithBooking ==
  [][\A th \in Therapists :
       (TherapistStatus(th) /\ pricing[th] # 0)
       => /\ (resp'.msg = "busy") <=> ENABLED (InstantBook("u1", th, 30) /\ resp'.msg = "busy")
          /\ resp'.msg = "busy" => resp'.at = ledger[th].endsAt
          /\ resp'.msg = "available" => ledger'[th] = Idle]_vars

\* a status check at the end instant of a session nobody ended: the
\* therapist is reported available and the run-out occupancy is cleared
C27_AvailableAtEnd ==
  /\ resp.op = "status" /\ resp.msg = "available"
  /\ Len(appts) = 1 /\ appts[1].status = "scheduled"
  /\ now = appts[1].date + appts[1].duration * 60
  /\ ledger[appts[1].therapistId] = Idle

\* C28: starting from an idle ledger, in every state reached through
\* instant-book, end-session, therapist-status and sweeper ticks an active
\* ledger entry has its endsAt set; the entry that is active with endsAt
\* null is never produced.
C28_ActiveHasEnd ==
  \A th \in Therapists : ledger[th].isActive => ledger[th].endsAt # Null

\* the cooldown of a second session, after the first one's cooldown ran out
C28_SecondCooldown ==
  /\ Len(appts) = 2
  /\ appts[2].status = "completed"
  /\ ledger[appts[2].therapistId].isActive
  /\ ledger[appts[2].therapistId].appointmentId = Null
  /\ now < ledger[appts[2].therapistId].endsAt

\* C29: in every interleaving of an end-session request for appointment A
\* with status checks and instant-book requests on the same therapist, if
\* the ledger has been re-occupied by a newer appointment B before the
\* end-session request writes the ledger, the request leaves B's occupancy
\* (appointmentId = B, endsAt = B's end) intact.
C29_EndLeavesNewerOccupancy ==
  [][(/\ EndWrite
      /\ LET cs == ledger[appts[ending.appt].therapistId]
         IN cs.isActive /\ cs.appointmentId # Null /\ cs.appointmentId # ending.appt)
     => ledger' = ledger]_vars

\* appointment id is scheduled and its session has not run out
Live(id) == Scheduled(id) /\ now < appts[id].date + appts[id].duration * 60

LiveHoldsLedger ==
  \A id \in 1 .. Len(appts) :
    Live(id) => /\ ledger[appts[id].therapistId].isActive
                /\ ledger[appts[id].therapistId].appointmentId = id

\* C30: with requests executed one at a time, for every appointment A with
\* status scheduled and now < A.date + A.duration the therapist's ledger
\* has isActive = true and appointmentId = A, so that every booking attempt
\* for that therapist during A's session is refused.
C30_LiveAppointmentHoldsLedger ==
  [][/\ LiveHoldsLedger'
     /\ \A u \in UserInputs, th \in Therapists, d \in DurationInputs :
          (/\ InstantBook(u, th, d)
           /\ \E id \in 1 .. Len(appts) : Live(id) /\ appts[id].therapistId = th)
          => resp'.code = 400 /\ appts' = appts /\ ledger' = ledger]_vars

\* a booking attempt refused ten minutes into a session that the sweeper
\* has passed over
C30_RefusedDuringSession ==
  /\ Len(appts) = 1 /\ Live(1)
  /\ now >= appts[1].date + 600
  /\ resp.op = "book" /\ resp.msg = "busy"
  /\ resp.at = appts[1].date + appts[1].duration * 60

\* C31: a sweeper tick sets an appointment to completed, and frees its
\* ledger entry, only at an instant strictly after date + duration: nothing
\* is auto-completed and no therapist freed while the join window of the
\* appointment is still open.
C31_SweepAfterJoinWindow ==
  [][SweeperTick =>
       \A id \in 1 .. Len(appts) :
         LET a == appts[id] IN
           /\ (a.status = "scheduled" /\ appts'[id].status = "completed")
                => now > a.date + a.duration * 60
           /\ (ledger[a.therapistId].appointmentId = id /\ ledger'[a.therapistId] = Idle)
                => now > a.date + a.duration * 60]_vars

\* C32: when a tick auto-completes appointment A while the therapist's
\* ledger is active but not bound to A (bound to another appointment, or in
\* cooldown with appointmentId null), the appointment pass leaves the
\* ledger as it is, no error is raised, and the tick goes on to the
\* remaining appointments and to the ledger pass.
C32_SweepRespectsForeignLedger ==
  [][(/\ SweeperTick
      /\ \E id \in 1 .. Len(appts) :
           /\ Overdue(appts[id], now)
           /\ ledger[appts[id].therapistId].isActive
           /\ ledger[appts[id].therapistId].appointmentId # id)
     => /\ resp'.code # 500
        /\ \A id \in 1 .. Len(appts) : Overdue(appts[id], now) => appts'[id].status = "completed"
        /\ \A th \in Therapists :
             (ledger[th].isActive /\ \A id \in 1 .. Len(appts) : ledger[th].appointmentId # id)
             => ledger'[th] = IF ledger[th].endsAt = Null \/ now > ledger[th].endsAt + 10 * 60
                              THEN Idle ELSE ledger[th]]_vars

\* C33: in every interleaving of a sweeper tick with an instant-book
\* request on the same therapist, once the booking has written the
\* occupancy of a new appointment B the sweeper does not overwrite the
\* ledger with the idle state: B's occupancy stays until B ends.
C33_SweepLeavesBooking ==
  [][(TickAppointment(1) \/ TickLedgerSave(1)) =>
       \A th \in Therapists :
         (/\ ledger[th].isActive
          /\ ledger[th].appointmentId # Null
          /\ appts[ledger[th].appointmentId].status = "scheduled"
          /\ now < ledger[th].endsAt)
         => ledger'[th] = ledger[th]]_vars

\* C34: if persisting the ledger occupancy fails after the appointment
\* record was created, the instant-book request reports a failure (500)
\* while a scheduled appointment exists whose therapist's ledger is not
\* occupied by it, and a subsequent instant-book for the same therapist can
\* succeed with an overlapping session.
C34_PartialBookingFailure ==
  [][/\ \A u \in UserInputs, th \in TherapistInputs, d \in DurationInputs :
          InstantBookUnsaved(u, th, d)
          => /\ resp'.code = 500
             /\ Len(appts') = Len(appts) + 1
             /\ appts'[Len(appts')].status = "scheduled"
             /\ appts'[Len(appts')].therapistId = th
             /\ ~ledger'[th].isActive
     /\ \A id \in 1 .. Len(appts) :
          (/\ resp.code = 500 /\ id = Len(appts) /\ Len(appts) < MaxAppts
           /\ appts[id].status = "scheduled"
           /\ ~ledger[appts[id].therapistId].isActive
           /\ now < appts[id].date + appts[id].duration * 60)
          => ENABLED (/\ InstantBook("u1", appts[id].therapistId, 30)
                      /\ resp'.code = 200
                      /\ Overlap(appts'[Len(appts')], appts[id]))]_vars

\* the booking after the failed one: two scheduled appointments of one
\* therapist with overlapping sessions
C34_OverlapAfterFailure ==
  /\ Len(appts) = 2
  /\ appts[1].status = "scheduled" /\ appts[2].status = "scheduled"
  /\ appts[1].therapistId = appts[2].therapistId
  /\ Overlap(appts[1], appts[2])
  /\ resp.op = "book" /\ resp.code = 200 /\ resp.id = 2
  /\ ledger[appts[2].therapistId].appointmentId = 2

\* C35: whichever way a participant leaves the call (the custom end button,
\* the countdown reaching zero, the widget's own hangup or close event) an
\* end-session request is issued for the appointment: the appointment
\* becomes completed and a ledger bound to it enters the cooldown, without
\* waiting for the sweeper.
C35_EveryExitEndsSession ==
  [][(call # NoCall /\ call' = NoCall) =>
       LET id == call.appt
           th == appts[id].therapistId
       IN /\ appts'[id].status = "completed"
          /\ ledger[th].appointmentId = id
               => /\ ledger'[th].isActive
                  /\ ledger'[th].appointmentId = Null
                  /\ ledger'[th].endsAt = now + 10 * 60]_vars

\* C36: the join request returns the meeting link only for an appointment
\* whose status is scheduled: after end-session or auto-completion of an
\* appointment no join request for it succeeds, even inside its time window.
C36_JoinRequiresScheduled ==
  [][\A c \in CallerInputs, id \in AppointmentInputs :
       (JoinSession(c, id) /\ id <= Len(appts) /\ appts[id].status # "scheduled")
       => resp'.code # 200]_vars

\* C37: in every reachable state an idle ledger (isActive false) has
\* appointmentId, startedAt and endsAt all null, and a ledger with
\* appointmentId = A has isActive true, startedAt = A.date and endsAt =
\* A.date + A.duration.
C37_LedgerShape ==
  \A th \in Therapists :
    /\ ~ledger[th].isActive
         => /\ ledger[th].appointmentId = Null
            /\ ledger[th].startedAt = Null
            /\ ledger[th].endsAt = Null
    /\ ledger[th].appointmentId # Null
         => /\ ledger[th].appointmentId \in 1 .. Len(appts)
            /\ ledger[th].isActive
            /\ ledger[th].startedAt = appts[ledger[th].appointmentId].date
            /\ ledger[th].endsAt = appts[ledger[th].appointmentId].date
                                     + appts[ledger[th].appointmentId].duration * 60

\* the occupancy of a second appointment beside a therapist nobody booked
C37_SecondOccupancy ==
  /\ Len(appts) = 2
  /\ appts[1].status = "completed"
  /\ ledger[appts[2].therapistId].appointmentId = 2
  /\ now > appts[2].date
  /\ \E th \in Therapists : ~ledger[th].isActive

\* C38: at the granularity of completed requests and completed sweeper
\* ticks, whenever a therapist's ledger has appointmentId = A, appointment
\* A has status scheduled.
C38_LedgerReferencesScheduled ==
  \A th \in Therapists :
    ledger[th].appointmentId # Null
      => /\ ledger[th].appointmentId \in 1 .. Len(appts)
         /\ appts[ledger[th].appointmentId].status = "scheduled"

\* the ledger bound to a second appointment after the sweeper has completed
\* the first
C38_BoundAfterSweep ==
  /\ Len(appts) = 2
  /\ appts[1].status = "completed" /\ 1 \notin endedOk
  /\ appts[2].status = "scheduled"
  /\ ledger[appts[2].therapistId].appointmentId = 2

\* C39: if from some point on no instant-book or end-session request
\* arrives for a therapist, then under fair sweeper ticks every ledger with
\* isActive = true, the stale one with endsAt null included, eventually
\* becomes idle, with no status check or booking attempt reading it.
C39_LedgerLiveness ==
  \A th \in Therapists : ledger[th].isActive ~> (ledger[th] = Idle)

\* a tick at the first instant has cleared the stale entry of t1
C39_StaleCleared ==
  /\ now = 0
  /\ resp.op = "sweep" /\ resp.code = 0
  /\ \A th \in Therapists : ledger[th] = Idle

====
